---------------------------- MODULE Spec2Model ----------------------------
(***************************************************************************)
(* Model of the two request handlers of the getBalance repository:         *)
(*   src/api/bitcoinBalance.js  (endpoint policy "exclusive-if-flagged")   *)
(*   src/unnamed/part_000       (endpoint policy "explicit-required" /     *)
(*                               "explicit-then-fallback")                 *)
(* One request is followed from its arrival to its response.  A step of    *)
(* the model is one run of the JavaScript event loop: the synchronous code *)
(* from one settled promise (connect, listunspent, getHistory) to the next *)
(* await, the microtask continuations included.  The Electrum servers are  *)
(* the environment: each connect and each remote call resolves or rejects  *)
(* nondeterministically.                                                   *)
(***************************************************************************)
EXTENDS Integers, Sequences, FiniteSets

VARIABLES
  variant,          \* which source file handles the request
  req,              \* the request: method and the fields of req.body but addresses
  inputAddresses,   \* req.body.addresses, kept until the first candidate is over
  pc,               \* handler position: "start", "connecting", "work", "done"
  addressesToCheck, \* working set (trimmed, de-duplicated, filtered)
  serversToTry,     \* candidate endpoint list
  i,                \* position of the for-loop in serversToTry (1-based)
  client,           \* the handler's `client` variable: 0 is null, else an index of clients
  clients,          \* every ElectrumClient constructed, in construction order
  tasks,            \* every getAddressDetails call started, in start order
  responses,        \* every res.status(..).send(..) made, in order
  events,           \* the handler's connect, close and send calls, in call order
  ledger            \* what the Electrum servers hold for each lookup key

vars == <<variant, req, inputAddresses, pc, addressesToCheck, serversToTry, i, client, clients,
          tasks, responses, events, ledger>>

-----------------------------------------------------------------------------
(* Bounds of the model *)

\* longest comma-separated address input, in pieces
MaxAddrs == 2
\* number of entries of the fallback roster that are kept
RosterLen == 2

-----------------------------------------------------------------------------
(* Addresses.  An address is an opaque string for the handler; what the     *)
(* bitcoinjs-lib decoders make of it is tabulated per address.              *)

P2PKH  == "1BoatSLRHtKNngkdXEeobR76b53LETtpyT"
P2SH   == "3J98t1WpEZ73CNmQviecrnyiWrnqRhWNLy"
P2WPKH == "bc1qw508d6qejxtdg4y5r3zarvary0c5xw7kv8f3t4"
P2WSH  == "bc1qrp33g0q5c5txsp9arysrx4k6zdkfs4nce4xj0gdcccefvpysxf3qccfmv3"
\* bech32 allows an all-upper-case encoding of the same P2WPKH address
UPPER  == "BC1QW508D6QEJXTDG4Y5R3ZARVARY0C5XW7KV8F3T4"
BAD    == "not-an-address"
EMPTY  == ""
\* addressesToCheck[0] of an empty array
Undefined == "#undefined"
\* the null returned by getScriptHash
Null == <<>>

\* what the decoders of bitcoinjs-lib yield for an address string
Decode(address) ==
  CASE address = P2PKH  -> [lead |-> "1",   enc |-> "base58", len |-> 20]
    [] address = P2SH   -> [lead |-> "3",   enc |-> "base58", len |-> 20]
    [] address = P2WPKH -> [lead |-> "bc1", enc |-> "bech32", len |-> 20]
    [] address = P2WSH  -> [lead |-> "bc1", enc |-> "bech32", len |-> 32]
    [] address = UPPER  -> [lead |-> "BC1", enc |-> "bech32", len |-> 20]
    [] OTHER            -> [lead |-> "?",   enc |-> "none",   len |-> 0]

isValidAddress(address) ==
  address # Undefined /\ Decode(address).enc # "none"

\* hex(reverse(sha256(output))) is kept symbolic: the key names the script it hashes
getScriptHash(address) ==
  IF address = Undefined THEN Null      \* address.startsWith throws, caught
  ELSE LET d == Decode(address)
           output ==
             IF d.lead = "1" THEN
               IF d.enc = "base58"
               THEN <<"OP_DUP", "OP_HASH160", address, "OP_EQUALVERIFY", "OP_CHECKSIG">>
               ELSE Null
             ELSE IF d.lead = "3" THEN
               IF d.enc = "base58"
               THEN <<"OP_HASH160", address, "OP_EQUAL">>
               ELSE Null
             ELSE IF d.lead = "bc1" THEN
               IF d.enc # "bech32" THEN Null
               ELSE IF d.len = 20 THEN <<"OP_0", "push20", address>>
               ELSE IF d.len = 32 THEN <<"OP_0", "push32", address>>
               ELSE Null
             ELSE Null
       IN  IF output = Null THEN Null ELSE <<"reversed-sha256">> \o output

-----------------------------------------------------------------------------
(* The remote ledger: the unspent outputs (their values, in satoshis) and the *)
(* history (the heights of its transactions) of every lookup key.            *)

NoAnswer  == [utxos |-> <<>>, history |-> <<>>]
OneOutput == [utxos |-> <<150000000>>, history |-> <<>>]
Busy      == [utxos |-> <<1, 2>>, history |-> <<800000, 0, -1>>]

Answers == { NoAnswer, OneOutput, Busy }

LedgerKeys == { getScriptHash(P2PKH), getScriptHash(P2WSH) }

\* a null key is answered with nothing
WithNull(f) == [key \in LedgerKeys \cup {Null} |-> IF key = Null THEN NoAnswer ELSE f[key]]

Ledgers == { WithNull(f) : f \in [LedgerKeys -> Answers] }

SampleLedger ==
  WithNull([key \in LedgerKeys |-> IF key = getScriptHash(P2PKH) THEN OneOutput ELSE Busy])

RECURSIVE SumValues(_)
\* utxos.reduce((total, utxo) => total + utxo.value, 0)
SumValues(utxos) ==
  IF utxos = <<>> THEN 0 ELSE Head(utxos) + SumValues(Tail(utxos))

\* an amount: a count of satoshis, sent as it is ("SAT") or divided by 1e8 ("BTC")
Amount(sat, unit) == [sat |-> sat, unit |-> unit]

\* the return value of getAddressDetails
Summary(address, balance, history, returnInSatoshi) ==
  [ address |-> address,
    balance |-> Amount(balance, IF returnInSatoshi THEN "SAT" ELSE "BTC"),
    confirmedTransactions   |-> Len(SelectSeq(history, LAMBDA height : height > 0)),
    unconfirmedTransactions |-> Len(SelectSeq(history, LAMBDA height : ~(height > 0))),
    totalTransactions       |-> Len(history) ]

-----------------------------------------------------------------------------
(* The request *)

\* a piece of the comma-separated input: text with or without blanks around it
RawPieces ==
  { [ws |-> FALSE, text |-> P2PKH], [ws |-> TRUE, text |-> P2PKH],
    [ws |-> FALSE, text |-> UPPER], [ws |-> FALSE, text |-> BAD] }

trim(piece) == piece.text

SeqsUpTo(S, n) == UNION { [1..k -> S] : k \in 1..n }

\* req.body.addresses: absent, a string (given by its pieces between commas),
\* or a JSON value that is no string
AddressInputs ==
  { [type |-> "absent", pieces |-> <<>>], [type |-> "other", pieces |-> <<>>] }
    \cup { [type |-> "string", pieces |-> p] : p \in SeqsUpTo(RawPieces, MaxAddrs) }

\* the input is dead once it has been split: nothing reads it again
Consumed == [type |-> "read", pieces |-> <<>>]

\* no dedup: every trimmed piece is kept
UniqKeepAll(list, acc) == list

\* inputAddresses.split(','), after `req.body.addresses || ""`
split(addresses) ==
  IF addresses.type = "absent"
  THEN << [ws |-> FALSE, text |-> EMPTY] >>
  ELSE addresses.pieces

FallbackA ==
  << "bolt.schulzemic.net:50002", "de.poiuty.com:50002", "electrum.kcicom.net:50002",
     "electrum.blockstream.info:50002", "bitcoin.aranguren.org:50002",
     "electrum.jochen-hoenicke.de:50006", "vmd104012.contaboserver.net:50002",
     "bitcoin.grey.pw:50002", "btc.aftrek.org:50002" >>

FallbackB ==
  << "bolt.schulzemic.net:50002", "de.poiuty.com:50002", "electrum.kcicom.net:50002",
     "api.ordimint.com:50002", "electrum.blockstream.info:50002",
     "bitcoin.aranguren.org:50002", "electrum.jochen-hoenicke.de:50006",
     "vmd104012.contaboserver.net:50002", "bitcoin.grey.pw:50002",
     "btc.aftrek.org:50002" >>

Min(a, b) == IF a < b THEN a ELSE b

\* the roster of the handler, cut to the first RosterLen entries
fallbackServers(v) ==
  LET roster == IF v = "bitcoinBalance" THEN FallbackA ELSE FallbackB
  IN  SubSeq(roster, 1, Min(RosterLen, Len(roster)))

\* req.body.server: absent, an endpoint outside the roster, an endpoint of the
\* roster, or a truthy JSON value that is no string (server.split throws)
NoServer   == ""
OwnServer  == "electrum.example.org:50002"
NotAString == "#number"
ServerInputs == { NoServer, OwnServer, FallbackA[2], NotAString }

IsString(server) == server # NotAString
Truthy(server) == server # NoServer

\* req.body.isFromParameter: absent, the boolean true, or the string "true"
FlagInputs == { "absent", "true", "'true'" }

Requests(v) ==
  [ method : {"POST", "GET"},
    multi : BOOLEAN,
    server : ServerInputs,
    isFromParameter : IF v = "bitcoinBalance" THEN FlagInputs ELSE {"absent"} ]


-----------------------------------------------------------------------------
(* Working set and candidate list *)

RECURSIVE Uniq(_, _)
\* [...new Set(list)]: first occurrences, in order
Uniq(list, acc) ==
  IF list = <<>> THEN acc
  ELSE Uniq(Tail(list),
            IF \E k \in 1..Len(acc) : acc[k] = Head(list)
            THEN acc ELSE Append(acc, Head(list)))

\* inputAddresses.split(',').map(trim), then Set and filter(isValidAddress)
WorkingSet(addresses) ==
  LET pieces  == split(addresses)
      trimmed == [k \in 1..Len(pieces) |-> trim(pieces[k])]
  IN  SelectSeq(Uniq(trimmed, <<>>), isValidAddress)

\* the flag tested for truthiness instead of `=== true`
SelectExclusiveTruthy(r) ==
  IF r.isFromParameter # "absent" /\ Truthy(r.server)
  THEN << r.server >>
  ELSE fallbackServers("bitcoinBalance")

\* bitcoinBalance.js: isFromParameter && specifiedServer ? [specifiedServer] : fallbackServers
SelectExclusive(r) ==
  IF r.isFromParameter = "true" /\ Truthy(r.server)
  THEN << r.server >>
  ELSE fallbackServers("bitcoinBalance")

\* the caller's server is left out of the list
SelectExplicitRosterOnly(r) == fallbackServers("part_000")

\* part_000: [specifiedServer, ...fallbackServers]
SelectExplicit(r) == << r.server >> \o fallbackServers("part_000")

SelectServers(v, r) ==
  IF v = "bitcoinBalance" THEN SelectExclusive(r) ELSE SelectExplicit(r)

-----------------------------------------------------------------------------
(* Handler state as one value: the loop, the client variable, the clients   *)
(* constructed and the responses sent.                                      *)

NullClient == 0

Handler == [pc |-> pc, i |-> i, client |-> client, clients |-> clients,
            responses |-> responses, events |-> events]

Apply(h) ==
  /\ pc' = h.pc
  /\ i' = h.i
  /\ client' = h.client
  /\ clients' = h.clients
  /\ responses' = h.responses
  /\ events' = h.events

\* the input is remembered while the first candidate is being worked on and
\* dropped when the handler leaves it
Forget(h) ==
  IF h.pc = "done" \/ Len(h.clients) > 1 THEN Consumed ELSE inputAddresses

NoTotals ==
  [ totalBalance |-> Amount(0, "none"), totalTransactions |-> 0,
    totalConfirmedTransactions |-> 0, totalUnconfirmedTransactions |-> 0,
    totalAddressesFetched |-> 0 ]

Response(status, body, cl, addrs) ==
  [status |-> status, body |-> body, client |-> cl, addresses |-> addrs,
   details |-> <<>>, totals |-> NoTotals]

MethodNotAllowed == Response(405, "Method Not Allowed", NullClient, <<>>)
ServerRequired   == Response(400, "Electrum server is required.", NullClient, <<>>)
AllServersFailed == Response(500, "All servers failed to respond.", NullClient, <<>>)
TypeErrorThrown  == Response(500, "TypeError", NullClient, <<>>)

Event(op, n) == [op |-> op, n |-> n]

\* res.status(..).send(..)
Respond(h, r) ==
  [h EXCEPT !.responses = Append(@, r),
            !.events = Append(@, Event("send", r.status))]

\* a response on a path that ends the handler outside the loop's try block
Send(h, r) == [Respond(h, r) EXCEPT !.pc = "done"]

\* close only a client whose connect had succeeded
FinallyCloseIfConnected(cls, cl) ==
  IF cl = NullClient \/ cls[cl].connect # "ok" THEN cls
  ELSE [cls EXCEPT ![cl].closeCalls = @ + 1]

\* finally { if (client) { client.close(); } }
FinallyClose(cls, cl) ==
  IF cl = NullClient THEN cls
  ELSE [cls EXCEPT ![cl].closeCalls = @ + 1]

\* the finally block of the loop body, run on handler state h
Finally(h) ==
  LET cls == FinallyClose(h.clients, h.client)
  IN  [h EXCEPT !.clients = cls,
                !.events = IF cls = h.clients THEN @
                           ELSE Append(@, Event("close", h.client))]

\* client = new ElectrumClient(port, hostname, 'tls'); client.connect() is called
NewClient(server) == [server |-> server, connect |-> "pending", closeCalls |-> 0]

\* the loop stops one entry early
ExhaustedOffByOne(servers, j) == j >= Len(servers)

\* the loop is over: throw new Error("All servers failed to respond."), caught
\* by the outer catch, which answers 500
Exhausted(servers, j) == j > Len(servers)

RECURSIVE ForLoop(_, _, _)
\* the for-loop from entry j on, up to its next await or to the end of the handler
ForLoop(h, servers, j) ==
  IF Exhausted(servers, j)
  THEN Send([h EXCEPT !.i = j], AllServersFailed)
  ELSE IF ~IsString(servers[j])
  THEN \* server.split is not a function: caught, finally, next entry
       ForLoop(Finally(h), servers, j + 1)
  ELSE [h EXCEPT !.pc = "connecting",
                 !.i = j,
                 !.client = Len(h.clients) + 1,
                 !.clients = Append(h.clients, NewClient(servers[j])),
                 !.events = Append(@, Event("connect", Len(h.clients) + 1))]

\* the next entry is tried without the finally block having run
AttemptFailedNoClose(h, servers) == ForLoop(h, servers, h.i + 1)

\* the inner catch answers 500 for the failed endpoint before going on
AttemptFailedAnswers(h, servers) ==
  ForLoop(Finally(Respond(h, AllServersFailed)), servers, h.i + 1)

\* catch (serverError) { warn } finally { close }, then the next entry
AttemptFailed(h, servers) == ForLoop(Finally(h), servers, h.i + 1)

\* the response is sent but the loop goes on (no return)
SucceededNoReturn(h, servers, r) ==
  ForLoop(Finally(Respond(h, r)), servers, h.i + 1)

\* the client is closed first and the response sent afterwards
SucceededCloseFirst(h, servers, r) ==
  [Respond(Finally(h), r) EXCEPT !.pc = "done"]

\* res.status(200).send(response); return;  with the finally block on the way out
Succeeded(h, servers, r) ==
  [Finally(Respond(h, r)) EXCEPT !.pc = "done"]

-----------------------------------------------------------------------------
(* getAddressDetails *)

\* up to the first await: the key is derived and listunspent is called with it
StartDetails(cl, address) ==
  [client |-> cl, address |-> address, scriptHash |-> getScriptHash(address),
   returnInSatoshi |-> (variant = "bitcoinBalance" /\ req.multi),
   st |-> "listunspent", calls |-> 1, failedAt |-> "none",
   balance |-> 0, summary |-> <<>>, overtaken |-> FALSE]

InFlight(t) == t.st \in {"listunspent", "getHistory"}

TasksOf(ts, cl) == SelectSeq(ts, LAMBDA t : t.client = cl)

\* Promise.all over the getAddressDetails promises
PromiseAll(ts) ==
  IF \E k \in 1..Len(ts) : ts[k].st = "failed" THEN "rejected"
  ELSE IF \A k \in 1..Len(ts) : ts[k].st = "done" THEN "fulfilled"
  ELSE "pending"

\* await of the one getAddressDetails promise of single mode
AwaitOne(t) ==
  IF t.st = "failed" THEN "rejected"
  ELSE IF t.st = "done" THEN "fulfilled"
  ELSE "pending"

WorkOutcome(ts, cl, multi) ==
  IF multi THEN PromiseAll(TasksOf(ts, cl)) ELSE AwaitOne(TasksOf(ts, cl)[1])

RECURSIVE SumField(_, _)
\* total += result[field], over the results in order
SumField(results, field) ==
  IF results = <<>> THEN 0
  ELSE Head(results)[field] + SumField(Tail(results), field)

Balances(results) == [k \in 1..Len(results) |-> results[k].balance]

\* the fold forgets the first result
AggregateFromSecond(results) ==
  LET rest == IF results = <<>> THEN <<>> ELSE Tail(results)
  IN  [ totalBalance |-> Amount(SumField(Balances(rest), "sat"),
                                IF variant = "bitcoinBalance" THEN "SAT" ELSE "BTC-sum"),
        totalTransactions |-> SumField(rest, "totalTransactions"),
        totalConfirmedTransactions |-> SumField(rest, "confirmedTransactions"),
        totalUnconfirmedTransactions |-> SumField(rest, "unconfirmedTransactions"),
        totalAddressesFetched |-> Len(results) ]

\* results.forEach(..): the totals of the batch response.  In part_000 the
\* balances are doubles (BTC) and their sum goes through toFixed(8); the sum
\* is kept here as the sum of the satoshi counts, tagged "BTC-sum"
Aggregate(results) ==
  [ totalBalance |-> Amount(SumField(Balances(results), "sat"),
                            IF variant = "bitcoinBalance" THEN "SAT" ELSE "BTC-sum"),
    totalTransactions |-> SumField(results, "totalTransactions"),
    totalConfirmedTransactions |-> SumField(results, "confirmedTransactions"),
    totalUnconfirmedTransactions |-> SumField(results, "unconfirmedTransactions"),
    totalAddressesFetched |-> Len(results) ]

\* the 200 response: one summary in single mode, results.forEach in batch mode
SuccessResponse(ts, cl, multi) ==
  LET mine == TasksOf(ts, cl)
      results == [k \in 1..Len(mine) |-> mine[k].summary[1]]
  IN  [ Response(200, IF multi THEN "batch" ELSE "single", cl,
                 [k \in 1..Len(mine) |-> mine[k].address])
        EXCEPT !.details = results,
               !.totals = IF multi THEN Aggregate(results) ELSE NoTotals ]

\* a rejected batch is answered with the summaries that did arrive
ContinueWithPartialBatch(h, ts) ==
  IF h.pc # "work" THEN h
  ELSE IF WorkOutcome(ts, h.client, req.multi) = "pending" THEN h
  ELSE Succeeded(h, serversToTry,
                 SuccessResponse(SelectSeq(ts, LAMBDA t : t.st = "done"),
                                 h.client, req.multi))

\* a rejection of the awaited promise is never noticed
ContinueOnFulfilmentOnly(h, ts) ==
  IF h.pc # "work" THEN h
  ELSE IF WorkOutcome(ts, h.client, req.multi) = "fulfilled"
  THEN Succeeded(h, serversToTry, SuccessResponse(ts, h.client, req.multi))
  ELSE h

\* the handler's continuation once the promise it awaits in the try block settles
Continue(h, ts) ==
  IF h.pc # "work" THEN h
  ELSE LET o == WorkOutcome(ts, h.client, req.multi)
       IN  IF o = "rejected" THEN AttemptFailed(h, serversToTry)
           ELSE IF o = "fulfilled"
           THEN Succeeded(h, serversToTry, SuccessResponse(ts, h.client, req.multi))
           ELSE h

-----------------------------------------------------------------------------
(* Actions *)

Init ==
  /\ variant \in {"bitcoinBalance", "part_000"}
  /\ req \in Requests(variant)
  /\ inputAddresses \in AddressInputs
  /\ pc = "start"
  /\ addressesToCheck = <<>>
  /\ serversToTry = <<>>
  /\ i = 0
  /\ client = NullClient
  /\ clients = <<>>
  /\ tasks = <<>>
  /\ responses = <<>>
  /\ events = <<>>
  /\ ledger = SampleLedger

\* module.exports of bitcoinBalance.js, from entry to the first await
ReceiveBalance ==
  /\ pc = "start"
  /\ variant = "bitcoinBalance"
  /\ IF req.method # "POST"
     THEN Apply(Send(Handler, MethodNotAllowed))
          /\ UNCHANGED <<addressesToCheck, serversToTry, inputAddresses>>
     ELSE IF inputAddresses.type = "other"
     THEN \* inputAddresses.split is not a function: outer catch
          Apply(Send(Handler, TypeErrorThrown))
          /\ UNCHANGED <<addressesToCheck, serversToTry, inputAddresses>>
     ELSE /\ addressesToCheck' = WorkingSet(inputAddresses)
          /\ serversToTry' = SelectServers(variant, req)
          /\ LET h == ForLoop(Handler, serversToTry', 1)
             IN  Apply(h) /\ inputAddresses' = Forget(h)
  /\ UNCHANGED <<variant, req, tasks, ledger>>

\* module.exports of part_000, from entry to the first await
ReceiveExplicit ==
  /\ pc = "start"
  /\ variant = "part_000"
  /\ IF req.method # "POST"
     THEN Apply(Send(Handler, MethodNotAllowed))
          /\ UNCHANGED <<addressesToCheck, serversToTry, inputAddresses>>
     ELSE IF ~Truthy(req.server)
     THEN Apply(Send(Handler, ServerRequired))
          /\ UNCHANGED <<addressesToCheck, serversToTry, inputAddresses>>
     ELSE IF inputAddresses.type = "other"
     THEN Apply(Send(Handler, TypeErrorThrown))
          /\ UNCHANGED <<addressesToCheck, serversToTry, inputAddresses>>
     ELSE /\ addressesToCheck' = WorkingSet(inputAddresses)
          /\ serversToTry' = SelectServers(variant, req)
          /\ LET h == ForLoop(Handler, serversToTry', 1)
             IN  Apply(h) /\ inputAddresses' = Forget(h)
  /\ UNCHANGED <<variant, req, tasks, ledger>>

\* await client.connect() resolves: the work of the mode is started
ConnectResolve ==
  /\ pc = "connecting"
  /\ LET connected == [Handler EXCEPT !.clients[client].connect = "ok", !.pc = "work"]
         started ==
           IF req.multi
           THEN [k \in 1..Len(addressesToCheck) |-> StartDetails(client, addressesToCheck[k])]
           ELSE << StartDetails(client, IF addressesToCheck = <<>> THEN Undefined
                                        ELSE addressesToCheck[1]) >>
     IN  /\ tasks' = tasks \o started
         /\ LET h == Continue(connected, tasks')
            IN  Apply(h) /\ inputAddresses' = Forget(h)
  /\ UNCHANGED <<variant, req, addressesToCheck, serversToTry, ledger>>

\* await client.connect() rejects
ConnectReject ==
  /\ pc = "connecting"
  /\ LET h == AttemptFailed([Handler EXCEPT !.clients[client].connect = "failed"],
                            serversToTry)
     IN  Apply(h) /\ inputAddresses' = Forget(h)
  /\ UNCHANGED <<variant, req, addressesToCheck, serversToTry, tasks, ledger>>

\* blockchainScripthash_listunspent resolves: getHistory is called with the key
ListunspentResolve(k) ==
  /\ tasks[k].st = "listunspent"
  /\ tasks' = [tasks EXCEPT ![k].st = "getHistory",
                            ![k].calls = @ + 1,
                            ![k].balance = SumValues(ledger[tasks[k].scriptHash].utxos)]
  /\ LET h == Continue(Handler, tasks')
     IN  Apply(h) /\ inputAddresses' = Forget(h)
  /\ UNCHANGED <<variant, req, addressesToCheck, serversToTry, ledger>>

\* the error of listunspent is swallowed and getHistory is called all the same
ListunspentRejectSwallowed(k) ==
  /\ tasks[k].st = "listunspent"
  /\ tasks' = [tasks EXCEPT ![k].st = "getHistory", ![k].calls = @ + 1,
                            ![k].failedAt = "listunspent"]
  /\ LET h == Continue(Handler, tasks')
     IN  Apply(h) /\ inputAddresses' = Forget(h)
  /\ UNCHANGED <<variant, req, addressesToCheck, serversToTry, ledger>>

\* blockchainScripthash_listunspent rejects: the error is rethrown
ListunspentReject(k) ==
  /\ tasks[k].st = "listunspent"
  /\ tasks' = [tasks EXCEPT ![k].st = "failed", ![k].failedAt = "listunspent"]
  /\ LET h == Continue(Handler, tasks')
     IN  Apply(h) /\ inputAddresses' = Forget(h)
  /\ UNCHANGED <<variant, req, addressesToCheck, serversToTry, ledger>>

\* blockchainScripthash_getHistory resolves: the summary is returned
GetHistoryResolve(k) ==
  /\ tasks[k].st = "getHistory"
  /\ tasks' = [tasks EXCEPT
                ![k].st = "done",
                ![k].summary = << Summary(tasks[k].address, tasks[k].balance,
                                          ledger[tasks[k].scriptHash].history,
                                          tasks[k].returnInSatoshi) >>,
                \* a call started later on the same client has returned already
                ![k].overtaken = \E n \in (k + 1)..Len(tasks) :
                                   /\ tasks[n].client = tasks[k].client
                                   /\ tasks[n].st = "done"]
  /\ LET h == Continue(Handler, tasks')
     IN  Apply(h) /\ inputAddresses' = Forget(h)
  /\ UNCHANGED <<variant, req, addressesToCheck, serversToTry, ledger>>

\* blockchainScripthash_getHistory rejects: the error is rethrown
GetHistoryReject(k) ==
  /\ tasks[k].st = "getHistory"
  /\ tasks' = [tasks EXCEPT ![k].st = "failed", ![k].failedAt = "getHistory"]
  /\ LET h == Continue(Handler, tasks')
     IN  Apply(h) /\ inputAddresses' = Forget(h)
  /\ UNCHANGED <<variant, req, addressesToCheck, serversToTry, ledger>>

Next ==
  \/ ReceiveBalance
  \/ ReceiveExplicit
  \/ ConnectResolve
  \/ ConnectReject
  \/ \E k \in 1..Len(tasks) : ListunspentResolve(k)
  \/ \E k \in 1..Len(tasks) : ListunspentReject(k)
  \/ \E k \in 1..Len(tasks) : GetHistoryResolve(k)
  \/ \E k \in 1..Len(tasks) : GetHistoryReject(k)

Spec == Init /\ [][Next]_vars

\* requests with and without a server of their own, over inputs of valid
\* pieces, the P2PKH pieces first
InitLive ==
  /\ Init
  /\ req.server \in {NoServer, OwnServer}
  /\ req.isFromParameter \in {"absent", "true"}
  /\ inputAddresses.type \in {"absent", "string"}
  /\ \A n \in 1..Len(inputAddresses.pieces) :
       inputAddresses.pieces[n] \in { [ws |-> FALSE, text |-> P2PKH],
                                      [ws |-> FALSE, text |-> UPPER] }
  /\ \A n \in 1..(Len(inputAddresses.pieces) - 1) :
       inputAddresses.pieces[n].text = UPPER =>
         inputAddresses.pieces[n + 1].text = UPPER

\* the handler is run once the request is in, and every connect and every
\* remote call is eventually resolved or rejected: while a step is possible,
\* one is taken
LiveSpec == InitLive /\ [][Next]_vars /\ WF_vars(Next)

\* batch requests over two addresses that have a key; bitcoinBalance.js, which
\* answers in satoshis, against every ledger, part_000 against the sample one
BatchPieces ==
  { [ws |-> FALSE, text |-> P2PKH], [ws |-> TRUE, text |-> P2PKH],
    [ws |-> FALSE, text |-> P2WSH], [ws |-> FALSE, text |-> BAD] }

InitBatch ==
  /\ variant \in {"bitcoinBalance", "part_000"}
  /\ req = [method |-> "POST", multi |-> TRUE, server |-> OwnServer,
            isFromParameter |-> "absent"]
  /\ inputAddresses \in
       { [type |-> "string", pieces |-> p] : p \in SeqsUpTo(BatchPieces, MaxAddrs) }
  /\ pc = "start"
  /\ addressesToCheck = <<>>
  /\ serversToTry = <<>>
  /\ i = 0
  /\ client = NullClient
  /\ clients = <<>>
  /\ tasks = <<>>
  /\ responses = <<>>
  /\ events = <<>>
  /\ ledger \in (IF variant = "bitcoinBalance" THEN Ledgers ELSE {SampleLedger})

SpecBatch == InitBatch /\ [][Next]_vars

-----------------------------------------------------------------------------
(* Vocabulary of the properties *)

Sent(r) == \E k \in 1..Len(responses) : responses[k] = r

\* the endpoints on which connect was called, in call order
ConnectAttempts == [k \in 1..Len(clients) |-> clients[k].server]

\* connect was called on every client at its construction; it is open until closed
Open(k) == clients[k].closeCalls = 0

FailedAtWork(k) == \E n \in 1..Len(tasks) : tasks[n].client = k /\ tasks[n].st = "failed"

ClientFailed(k) == clients[k].connect = "failed" \/ FailedAtWork(k)

\* the working set and the candidate list have been computed (the loop was entered)
LoopEntered == serversToTry # <<>>

AllStrings == \A j \in 1..Len(serversToTry) : IsString(serversToTry[j])

-----------------------------------------------------------------------------
(* Properties *)

\* C1: when the handler reports "All servers failed to respond." over a list
\* whose entries all failed at connect or during the work, connect was called
\* once per list entry, in list order, every attempt failed, and this 500 is the
\* only response; and a finished request all of whose candidates failed has
\* reported it.
C1_FailoverExhaustion ==
  /\ (Sent(AllServersFailed) /\ AllStrings) =>
       /\ ConnectAttempts = serversToTry
       /\ \A k \in 1..Len(clients) : ClientFailed(k)
       /\ responses = << AllServersFailed >>
  /\ ( /\ pc = "done"
       /\ LoopEntered
       /\ Len(clients) = Len(serversToTry)
       /\ \A k \in 1..Len(clients) : ClientFailed(k) ) => Sent(AllServersFailed)

\* three candidates, one failed at connect and one failed during the work
C1_Witness ==
  /\ Sent(AllServersFailed)
  /\ AllStrings
  /\ Len(serversToTry) >= 3
  /\ \E k \in 1..Len(clients) : clients[k].connect = "failed"
  /\ \E k \in 1..Len(clients) : FailedAtWork(k)

\* C2: once the handler has finished, close has been called on every client
\* on which connect was called.
C2_Teardown ==
  pc = "done" => \A k \in 1..Len(clients) : ~Open(k)

\* a finished request with a failed connect, a failed work and a success
C2_Witness ==
  /\ pc = "done"
  /\ \E k \in 1..Len(responses) : responses[k].status = 200
  /\ \E k \in 1..Len(clients) : clients[k].connect = "failed"
  /\ \E k \in 1..Len(clients) : FailedAtWork(k)

\* C3: a batch response carries the summaries of the whole working set, all
\* of them fulfilled on the answering client; a client on which a per-address
\* query failed answers nothing, and the handler has moved on from it to the
\* next candidate or to the all-servers-failed error.
C3_AllOrNothing ==
  /\ \A n \in 1..Len(responses) :
       responses[n].body = "batch" =>
         /\ responses[n].addresses = addressesToCheck
         /\ \A m \in 1..Len(tasks) :
              tasks[m].client = responses[n].client => tasks[m].st = "done"
  /\ \A k \in 1..Len(clients) :
       (req.multi /\ FailedAtWork(k)) =>
         /\ \A n \in 1..Len(responses) : responses[n].client # k
         /\ ~Open(k)
         /\ Len(clients) > k \/ Sent(AllServersFailed)

\* a batch attempt with one query failed and its sibling fulfilled, left behind
\* for the next candidate
C3_Witness ==
  /\ req.multi
  /\ \E k \in 1..Len(clients) :
       /\ FailedAtWork(k)
       /\ \E m \in 1..Len(tasks) : tasks[m].client = k /\ tasks[m].st = "done"
       /\ Len(clients) > k

\* C4: with an empty working set no connect is attempted and no remote query
\* is issued.
C4_NoTrafficOnEmptyWorkingSet ==
  (LoopEntered /\ addressesToCheck = <<>>) => (clients = <<>> /\ tasks = <<>>)

\* C5: no remote call is issued by a getAddressDetails call whose key is null.
C5_NoNullKeyQuery ==
  \A n \in 1..Len(tasks) : tasks[n].scriptHash = Null => tasks[n].calls = 0

\* C6: no remote call is in flight on a client on which close has been called.
C6_NoCloseWhileInFlight ==
  \A n \in 1..Len(tasks) : InFlight(tasks[n]) => Open(tasks[n].client)

\* C7: the candidate list holds no endpoint twice and no endpoint receives two
\* connect attempts.
C7_NoEndpointTwice ==
  /\ \A j, k \in 1..Len(serversToTry) : j # k => serversToTry[j] # serversToTry[k]
  /\ \A j, k \in 1..Len(clients) : j # k => clients[j].server # clients[k].server

\* C8: at most one client is open, and it is the last one constructed: every
\* earlier client was closed before the next was constructed.
C8_AtMostOneOpen ==
  /\ Cardinality({ k \in 1..Len(clients) : Open(k) }) <= 1
  /\ \A k \in 1..Len(clients) : Open(k) => k = Len(clients)

\* a second client is open after the first had connected and failed at work
C8_Witness ==
  /\ Len(clients) >= 2
  /\ Open(Len(clients))
  /\ clients[1].connect = "ok"
  /\ clients[Len(clients)].connect = "ok"

\* C9: a 200 response is the only response, it comes from the last client
\* constructed, and the handler has stopped: no later candidate is connected.
C9_StopAtFirstSuccess ==
  \A n \in 1..Len(responses) :
    responses[n].status = 200 =>
      /\ pc = "done"
      /\ Len(responses) = 1
      /\ responses[n].client = Len(clients)
      /\ ~ClientFailed(responses[n].client)

\* success on a candidate that is not the last of the list
C9_Witness ==
  /\ \E n \in 1..Len(responses) : responses[n].status = 200
  /\ i < Len(serversToTry)
  /\ Len(clients) >= 2

\* C10: in bitcoinBalance.js, with isFromParameter the boolean true and a
\* server supplied, the candidate list is the caller's server alone and no
\* other endpoint is contacted; otherwise the list is the fallback roster in its
\* order and the endpoints contacted are a prefix of it.
C10_ExclusiveIfFlagged ==
  (variant = "bitcoinBalance" /\ LoopEntered) =>
    IF req.isFromParameter = "true" /\ req.server # NoServer
    THEN /\ serversToTry = << req.server >>
         /\ \A k \in 1..Len(clients) : clients[k].server = req.server
         /\ Len(clients) <= 1
    ELSE /\ serversToTry = SubSeq(FallbackA, 1, Len(serversToTry))
         /\ Len(serversToTry) = Min(RosterLen, Len(FallbackA))
         /\ ConnectAttempts = SubSeq(serversToTry, 1, Len(clients))

\* the caller's own server was the only one contacted, and it failed
C10_Witness ==
  /\ variant = "bitcoinBalance"
  /\ req.isFromParameter = "true"
  /\ req.server = OwnServer
  /\ Len(clients) = 1
  /\ ClientFailed(1)
  /\ Sent(AllServersFailed)

\* C11: in part_000 a POST without a server is answered 400 and nothing else
\* happens: no client is constructed, no query started; with a server the
\* candidate list is the caller's server followed by the roster in its order,
\* and the endpoints contacted are the string entries of a prefix of it.
C11_ExplicitRequired ==
  (variant = "part_000" /\ req.method = "POST" /\ pc # "start") =>
    IF req.server = NoServer
    THEN /\ responses = << ServerRequired >>
         /\ pc = "done"
         /\ clients = <<>>
         /\ tasks = <<>>
         /\ ~LoopEntered
    ELSE /\ ~Sent(ServerRequired)
         /\ LoopEntered =>
              /\ serversToTry[1] = req.server
              /\ Tail(serversToTry) = SubSeq(FallbackB, 1, Min(RosterLen, Len(FallbackB)))
              /\ \E n \in 0..Len(serversToTry) :
                   ConnectAttempts = SelectSeq(SubSeq(serversToTry, 1, n), IsString)

\* the caller's server failed and the roster was tried after it
C11_Witness ==
  /\ variant = "part_000"
  /\ req.server = OwnServer
  /\ Len(clients) >= 3
  /\ clients[1].server = OwnServer
  /\ ClientFailed(1)

\* C12: a 500 is answered only when the loop has passed every candidate, each
\* one attempted and failed.
C12_ServerErrorOnlyAfterAllFailed ==
  \A n \in 1..Len(responses) :
    responses[n].status = 500 =>
      /\ LoopEntered
      /\ i > Len(serversToTry)
      /\ \A k \in 1..Len(clients) : ClientFailed(k)

\* C13: a batch request whose working set is empty is answered with a client
\* error: neither a 200 nor a 500.
C13_EmptyBatchIsClientError ==
  (req.multi /\ LoopEntered /\ addressesToCheck = <<>>) =>
    /\ \A n \in 1..Len(responses) : responses[n].status \notin {200, 500}
    /\ pc = "done" => Len(responses) = 1

\* position of the first piece whose trimmed text is the address
FirstPiece(pieces, address) ==
  CHOOSE j \in 1..Len(pieces) :
    /\ pieces[j].text = address
    /\ \A n \in 1..(j - 1) : pieces[n].text # address

At(e) == { n \in 1..Len(events) : events[n] = e }

\* C16: for a client that answered 200, the send comes before the close in the
\* handler's call order, and the close is made, once.
C16_CloseAfterResponse ==
  \A n \in 1..Len(responses) :
    responses[n].status = 200 =>
      LET k == responses[n].client
      IN  /\ Cardinality(At(Event("send", 200))) = 1
          /\ Cardinality(At(Event("close", k))) = 1
          /\ \A a \in At(Event("send", 200)), b \in At(Event("close", k)) : a < b
          /\ ~Open(k)

\* a batch of two answered by the second client
C16_Witness ==
  /\ Len(responses) = 1
  /\ responses[1].status = 200
  /\ responses[1].body = "batch"
  /\ Len(responses[1].addresses) = 2
  /\ responses[1].client = 2

RECURSIVE Plus(_)
\* the exact sum of a sequence of integers
Plus(numbers) ==
  IF numbers = <<>> THEN 0
  ELSE numbers[Len(numbers)] + Plus(SubSeq(numbers, 1, Len(numbers) - 1))

\* C15: in a batch response of bitcoinBalance.js the summaries are those of
\* the working set, in its order, each with what the ledger holds for its
\* address (balance in satoshis, transactions counted by height); every total
\* is the exact sum of its field over the summaries, and totalAddressesFetched
\* is the length of the working set.
C15_BatchTotals ==
  \A n \in 1..Len(responses) :
    (variant = "bitcoinBalance" /\ responses[n].body = "batch") =>
      LET d == responses[n].details
          t == responses[n].totals
          held(k) == ledger[getScriptHash(addressesToCheck[k])]
      IN  /\ Len(d) = Len(addressesToCheck)
          /\ \A k \in 1..Len(d) :
               /\ d[k].address = addressesToCheck[k]
               /\ d[k].balance = Amount(Plus(held(k).utxos), "SAT")
               /\ d[k].totalTransactions = Len(held(k).history)
               /\ d[k].confirmedTransactions =
                    Cardinality({ j \in 1..Len(held(k).history) : held(k).history[j] > 0 })
               /\ d[k].confirmedTransactions + d[k].unconfirmedTransactions
                    = d[k].totalTransactions
          /\ t.totalBalance = Amount(Plus([k \in 1..Len(d) |-> d[k].balance.sat]), "SAT")
          /\ t.totalTransactions = Plus([k \in 1..Len(d) |-> d[k].totalTransactions])
          /\ t.totalConfirmedTransactions
               = Plus([k \in 1..Len(d) |-> d[k].confirmedTransactions])
          /\ t.totalUnconfirmedTransactions
               = Plus([k \in 1..Len(d) |-> d[k].unconfirmedTransactions])
          /\ t.totalAddressesFetched = Len(addressesToCheck)

\* a batch of two with different balances and histories, the second address
\* answered before the first
C15_Witness ==
  /\ variant = "bitcoinBalance"
  /\ Len(responses) = 1
  /\ responses[1].body = "batch"
  /\ Len(responses[1].details) = 2
  /\ responses[1].details[1].balance.sat # responses[1].details[2].balance.sat
  /\ responses[1].details[1].balance.sat > 0
  /\ responses[1].totals.totalConfirmedTransactions > 0
  /\ \E m \in 1..Len(tasks) :
       tasks[m].client = responses[1].client /\ tasks[m].overtaken

\* C17: a getAddressDetails call has issued one remote call while listunspent
\* is pending and two once getHistory was called; a call whose listunspent
\* failed has issued no getHistory; a summary exists exactly for the calls
\* that returned, after two remote calls and no failure; a failed call has
\* none.
C17_TwoCallsInSequence ==
  \A n \in 1..Len(tasks) :
    LET t == tasks[n]
    IN  /\ t.st = "listunspent" => (t.calls = 1 /\ t.failedAt = "none")
        /\ t.st = "getHistory"  => (t.calls = 2 /\ t.failedAt = "none")
        /\ t.st = "done"        => (t.calls = 2 /\ t.failedAt = "none")
        /\ t.st = "failed"      => t.failedAt \in {"listunspent", "getHistory"}
        /\ t.failedAt = "listunspent" => (t.st = "failed" /\ t.calls = 1)
        /\ t.failedAt = "getHistory"  => (t.st = "failed" /\ t.calls = 2)
        /\ (t.summary # <<>>) <=> (t.st = "done")
        /\ \A m \in 1..Len(responses) :
             (responses[m].status = 200 /\ responses[m].client = t.client) =>
               (t.st = "done" /\ t.calls = 2)

\* one call failed at listunspent, one at getHistory, and one returned
C17_Witness ==
  /\ \E n \in 1..Len(tasks) : tasks[n].failedAt = "listunspent"
  /\ \E n \in 1..Len(tasks) : tasks[n].failedAt = "getHistory"
  /\ \E n \in 1..Len(tasks) : tasks[n].st = "done"
  /\ \E m \in 1..Len(responses) : responses[m].status = 200

\* C18: at most one response is ever sent, and a finished handler has sent
\* exactly one; none is sent while the handler is still running.
C18_ExactlyOneResponse ==
  /\ Len(responses) <= 1
  /\ pc = "done" <=> Len(responses) = 1
  /\ Cardinality({ n \in 1..Len(events) : events[n].op = "send" }) = Len(responses)

\* a batch failed on the first client with a sibling query left behind, and
\* the request was answered once, by a later client
C18_Witness ==
  /\ pc = "done"
  /\ req.multi
  /\ Len(clients) >= 2
  /\ FailedAtWork(1)
  /\ \E n \in 1..Len(tasks) : tasks[n].client = 1 /\ tasks[n].st # "failed"
  /\ Len(responses) = 1
  /\ responses[1].status = 200

\* C19: the handler eventually stops with its one response sent; it never
\* constructs more clients than the loop has visited list entries; and it
\* stops without a 200 only once the loop has passed every entry of the list.
C19_Termination ==
  /\ <>(pc = "done" /\ Len(responses) = 1)
  /\ [](Len(clients) <= i /\ (LoopEntered => i <= Len(serversToTry) + 1))
  /\ []((pc = "done" /\ LoopEntered
          /\ \A n \in 1..Len(responses) : responses[n].status # 200)
        => i > Len(serversToTry))

\* every candidate but the last failed and the last one answered
C19_Witness ==
  /\ pc = "done"
  /\ Len(serversToTry) >= 3
  /\ Len(clients) = Len(serversToTry)
  /\ \A k \in 1..(Len(clients) - 1) : ClientFailed(k)
  /\ Len(responses) = 1
  /\ responses[1].status = 200
  /\ responses[1].client = Len(clients)

=============================================================================
